---------------------------- MODULE Spec2Model ----------------------------
(***************************************************************************)
(* A model of the branch predictor library of src/src/predictor.cpp:       *)
(* the Static, Gshare, Tournament and TAGE ("Custom") predictors behind    *)
(* init_predictor / make_prediction / train_predictor.                     *)
(*                                                                         *)
(* Tables.  Every predictor table is a C array of 2^11 .. 2^15 entries     *)
(* that the initialiser fills with one value.  A table is modelled by the  *)
(* record [alloc, freed, fill, w]: alloc says the pointer is non-NULL,     *)
(* freed that the block it points to has been passed to free, fill is      *)
(* the value the initialiser stored in every entry, and w maps exactly the *)
(* indices whose entry differs from fill to the value stored there.        *)
(* Read and Write keep this representation canonical, so two model states  *)
(* are equal exactly when the arrays are equal entry by entry.             *)
(*                                                                         *)
(* Integers.  pc is a uint32_t, the history registers are uint64_t.  The   *)
(* gshare history is never masked by the code (line 532); it is a natural  *)
(* number here, and the trace bounds keep it far below 2^31, so that the   *)
(* 64-bit register never wraps inside the model.  All other histories are  *)
(* masked by the code and are modelled with the same masks.                *)
(***************************************************************************)
EXTENDS Integers, Sequences, FiniteSets, TLC

(***************************************************************************)
(* Symbolic constants of predictor.h.                                      *)
(***************************************************************************)
NOTTAKEN == 0
TAKEN == 1

STATIC == 0
GSHARE == 1
TOURNAMENT == 2
CUSTOM == 3
\* A variant tag that is none of the four known ones.
UNKNOWN_TYPE == 4

\* 2-bit counter states.
SN == 0
WN == 1
WT == 2
ST == 3

\* 3-bit counter states, in the order of the COUNTERUPDATE3b chain.
SSSN == 0
SSN == 1
NS == 2
NW == 3
TW == 4
TS == 5
SST == 6
SSST == 7

(***************************************************************************)
(* Configuration of predictor.cpp.                                         *)
(***************************************************************************)
T_LHT_BITS == 11
T_LHT_ENTRIES == 2 ^ T_LHT_BITS
T_LPT_ENTRIES == 2 ^ T_LHT_BITS
T_LPT_INIT == 1
T_GHR_BITS == 13
T_GPT_ENTRIES == 2 ^ T_GHR_BITS
T_GPT_INIT == 1
T_CHOOSER_ENTRIES == 2 ^ T_GHR_BITS
T_CHOOSER_INIT == 1

TAGE_BIMODAL_BITS == 15
TAGE_BIMODAL_SIZE == 2 ^ TAGE_BIMODAL_BITS
TAGE_NUM_TAGGED == 7
TAGE_TAGGED_BITS == 12
TAGE_TAGGED_SIZE == 2 ^ TAGE_TAGGED_BITS
\* The macro is the unparenthesised text "TAGE_TAGGED_BITS - 5"; its only use
\* is (1u << TAGE_TAG_BITS) - 1, where "-" binds tighter than "<<".
TAGE_TAG_BITS == TAGE_TAGGED_BITS - 5
TAGE_CTR_INIT == 4
TAGE_U_INIT == 0
\* tage_entry_t.tag is a uint16_t; init_tage stores 0xFFFF in it.
TAGE_INVALID_TAG == 65535
tage_hist_lengths == <<4, 8, 16, 32, 64, 128, 256>>
\* The low TAGE_TAGGED_BITS bits of the index hash multiplier 0x9e3779b9
\* (0x9b9): tage_index keeps only those bits of the 32-bit product.
TAGE_HASH_MUL_LOW == 2489
\* The table-id multiplier 0xabcdef of tage_index.
TAGE_TABLE_MUL == 11259375

ghistoryBits == 15

(***************************************************************************)
(* Bounds of the model.                                                    *)
(***************************************************************************)
\* Conditional trains per trace of Spec.
MaxTrains == 4
\* Conditional trains per trace of SpecLong.
MaxLong == 20
\* Trains of a SpecLong trace that are not BaseTrain.
MaxDev == 2
\* Taken updates per run of SpecCounter.
MaxK == 6
\* Runs of equal trains per trace of SpecRuns.
MaxRuns == 2

\* The branch addresses the harness feeds in Spec.  0x1000 and 0x1001 meet
\* in one gshare entry after one taken branch; the three are distinct in
\* their low 11 bits, so each has its own local-history entry.
PCs == {4096, 4097, 3}
\* The branch addresses of the long traces of SpecLong, and the train that
\* makes up a long trace but for its deviations.
LongPCs == {0, 1}
BaseTrain == <<0, TAKEN>>
\* Values of the arguments the predictor accepts and ignores
\* (target, call, ret, direct).
Ignored == {0, 1}
Outcomes == {NOTTAKEN, TAKEN}

VARIABLES
    bpType,          \* the variant tag
    bht_gshare,      \* gshare: table of 2-bit counters
    ghistory,        \* gshare: global history (uint64_t, never masked)
    t_localHistory,  \* tournament: per-pc local histories
    t_localPred,     \* tournament: 3-bit counters indexed by local history
    t_globalPred,    \* tournament: 2-bit counters indexed by t_ghr
    t_chooser,       \* tournament: 2-bit chooser indexed by t_ghr
    t_ghr,           \* tournament: global history
    tage_bimodal,    \* TAGE: bimodal base table of 2-bit counters
    tage_tables,     \* TAGE: the tagged tables, t \in 0..6 -> table of entries
    tage_ghist,      \* TAGE: global history
    warned,          \* an "Undefined state" warning has been printed
    lastCall,        \* the last call: <<"init", 0, 0>>, <<"predict", pc, value
                     \* returned>>, <<"train", condition, 0>> or <<"cleanup",
                     \* 0, 0>>; <<"exit", status, 0>> or <<"fault", 0, 0>>
                     \* when the call did not return; in SpecCounter
                     \* <<update, start, counter>>
    trace            \* the conditional trains fed so far, as <<pc, outcome>>;
                     \* in SpecCounter the updates applied, as <<start, outcome>>

gshareVars == <<bht_gshare, ghistory>>
tournVars == <<t_localHistory, t_localPred, t_globalPred, t_chooser, t_ghr>>
tageVars == <<tage_bimodal, tage_tables, tage_ghist>>
\* The predictor's own state: every table and every history register.
predictorVars == <<bpType, gshareVars, tournVars, tageVars>>
vars == <<predictorVars, warned, lastCall, trace>>

(***************************************************************************)
(* Arithmetic on unsigned integers.                                        *)
(***************************************************************************)
\* a ^ b, bit by bit.
RECURSIVE XorBits(_, _)
XorBits(a, b) ==
    IF a = 0 THEN b
    ELSE IF b = 0 THEN a
    ELSE ((a + b) % 2) + 2 * XorBits(a \div 2, b \div 2)
\* The xor of two hexadecimal digits, tabulated once.
XorNibble == [a \in 0 .. 15 |-> [b \in 0 .. 15 |-> XorBits(a, b)]]
\* a ^ b, four bits at a time.
RECURSIVE XOR(_, _)
XOR(a, b) ==
    IF a = 0 THEN b
    ELSE IF b = 0 THEN a
    ELSE XorNibble[a % 16][b % 16] + 16 * XOR(a \div 16, b \div 16)

Max(S) == CHOOSE x \in S : \A y \in S : y <= x

(***************************************************************************)
(* Tables.                                                                 *)
(***************************************************************************)
\* A pointer that was never assigned: NULL.
NullTable == [alloc |-> FALSE, freed |-> FALSE, fill |-> 0, w |-> <<>>]
\* malloc followed by the loop (or memset) that stores v in every entry.
Filled(v) == [alloc |-> TRUE, freed |-> FALSE, fill |-> v, w |-> <<>>]
\* A block that was passed to free while the pointer kept its value: the
\* pointer dangles and the contents are indeterminate, so fill and w say
\* nothing about what a read returns.
Freed == [alloc |-> TRUE, freed |-> TRUE, fill |-> 0, w |-> <<>>]
\* The values a uint8_t read from indeterminate memory can have.
Byte == 0 .. 255
Read(tbl, i) == IF i \in DOMAIN tbl.w THEN tbl.w[i] ELSE tbl.fill
Write(tbl, i, v) ==
    IF v = tbl.fill
    THEN [tbl EXCEPT !.w = [j \in (DOMAIN tbl.w) \ {i} |-> tbl.w[j]]]
    ELSE [tbl EXCEPT !.w = [j \in (DOMAIN tbl.w) \cup {i} |-> IF j = i THEN v ELSE tbl.w[j]]]
\* Every value stored in the table.
Values(tbl) == {tbl.fill} \cup {tbl.w[i] : i \in DOMAIN tbl.w}

(***************************************************************************)
(* Saturating counters: the four helper macros.                            *)
(***************************************************************************)
Undefined2b(counter) == counter \notin {SN, WN, WT, ST}
Undefined3b(counter) == counter \notin {SSSN, SSN, NS, NW, TW, TS, SST, SSST}

PREDICT2b(counter) ==
    CASE counter = WN -> NOTTAKEN
      [] counter = SN -> NOTTAKEN
      [] counter = WT -> TAKEN
      [] counter = ST -> TAKEN
      [] OTHER -> NOTTAKEN

PREDICT3b(counter) ==
    CASE counter = SSSN -> NOTTAKEN
      [] counter = SSN -> NOTTAKEN
      [] counter = NS -> NOTTAKEN
      [] counter = NW -> NOTTAKEN
      [] counter = TW -> TAKEN
      [] counter = TS -> TAKEN
      [] counter = SST -> TAKEN
      [] counter = SSST -> TAKEN
      [] OTHER -> NOTTAKEN

\* Mutant: a not-taken branch drops a strongly-taken counter by two.
COUNTERUPDATE2b_Typo(counter, outcome) ==
    CASE counter = WN -> IF outcome = TAKEN THEN WT ELSE SN
      [] counter = SN -> IF outcome = TAKEN THEN WN ELSE SN
      [] counter = WT -> IF outcome = TAKEN THEN ST ELSE WN
      [] counter = ST -> IF outcome = TAKEN THEN ST ELSE WN
      [] OTHER -> counter

COUNTERUPDATE2b(counter, outcome) ==
    CASE counter = WN -> IF outcome = TAKEN THEN WT ELSE SN
      [] counter = SN -> IF outcome = TAKEN THEN WN ELSE SN
      [] counter = WT -> IF outcome = TAKEN THEN ST ELSE WN
      [] counter = ST -> IF outcome = TAKEN THEN ST ELSE WT
      [] OTHER -> counter

\* Mutant: a 3-bit update that counts on past SSST.
COUNTERUPDATE3b_Unclamped(counter, outcome) ==
    CASE counter = SSSN -> IF outcome = TAKEN THEN SSN ELSE SSSN
      [] counter = SSN -> IF outcome = TAKEN THEN NS ELSE SSSN
      [] counter = NS -> IF outcome = TAKEN THEN NW ELSE SSN
      [] counter = NW -> IF outcome = TAKEN THEN TW ELSE NS
      [] counter = TW -> IF outcome = TAKEN THEN TS ELSE NW
      [] counter = TS -> IF outcome = TAKEN THEN SST ELSE TW
      [] counter = SST -> IF outcome = TAKEN THEN SSST ELSE TS
      [] counter = SSST -> IF outcome = TAKEN THEN SSST + 1 ELSE SST
      [] OTHER -> counter

COUNTERUPDATE3b(counter, outcome) ==
    CASE counter = SSSN -> IF outcome = TAKEN THEN SSN ELSE SSSN
      [] counter = SSN -> IF outcome = TAKEN THEN NS ELSE SSSN
      [] counter = NS -> IF outcome = TAKEN THEN NW ELSE SSN
      [] counter = NW -> IF outcome = TAKEN THEN TW ELSE NS
      [] counter = TW -> IF outcome = TAKEN THEN TS ELSE NW
      [] counter = TS -> IF outcome = TAKEN THEN SST ELSE TW
      [] counter = SST -> IF outcome = TAKEN THEN SSST ELSE TS
      [] counter = SSST -> IF outcome = TAKEN THEN SSST ELSE SST
      [] OTHER -> counter

(***************************************************************************)
(* Gshare.                                                                 *)
(***************************************************************************)
init_gshare_bht == Filled(WN)

\* index = (pc & (bht_entries - 1)) ^ (ghistory & (bht_entries - 1))
gshare_index(pc) == XOR(pc % (2 ^ ghistoryBits), ghistory % (2 ^ ghistoryBits))

\* The switch of gshare_predict on the counter it read.
gshare_taken(counter) ==
    CASE counter = WN -> NOTTAKEN
      [] counter = SN -> NOTTAKEN
      [] counter = WT -> TAKEN
      [] counter = ST -> TAKEN
      [] OTHER -> NOTTAKEN

gshare_predict(pc) == gshare_taken(Read(bht_gshare, gshare_index(pc)))

\* What the switch makes of a counter read through a dangling pointer: the
\* prediction, and whether the "Undefined state" warning is printed.
gshare_freed_reads == {<<gshare_taken(counter), Undefined2b(counter)>> : counter \in Byte}

gshare_warns(pc) == Undefined2b(Read(bht_gshare, gshare_index(pc)))

\* Mutant: a taken branch leaves a weakly-taken counter where it is.
gshare_update_Stuck(counter, outcome) ==
    CASE counter = WN -> IF outcome = TAKEN THEN WT ELSE SN
      [] counter = SN -> IF outcome = TAKEN THEN WN ELSE SN
      [] counter = WT -> IF outcome = TAKEN THEN WT ELSE WN
      [] counter = ST -> IF outcome = TAKEN THEN ST ELSE WT
      [] OTHER -> counter

\* The switch of train_gshare.
gshare_update(counter, outcome) ==
    CASE counter = WN -> IF outcome = TAKEN THEN WT ELSE SN
      [] counter = SN -> IF outcome = TAKEN THEN WN ELSE SN
      [] counter = WT -> IF outcome = TAKEN THEN ST ELSE WN
      [] counter = ST -> IF outcome = TAKEN THEN ST ELSE WT
      [] OTHER -> counter

\* Mutant: the history register is never updated.
gshare_shift_Unchanged(hist, outcome) == hist
\* Mutant: the history is shifted but the outcome is not or-ed in.
gshare_shift_NoOutcome(hist, outcome) == 2 * hist

\* ghistory = ((ghistory << 1) | outcome), with outcome in {0, 1}
gshare_shift(hist, outcome) == 2 * hist + outcome

train_gshare(pc, outcome) ==
    LET index == gshare_index(pc)
    IN  /\ bht_gshare' = Write(bht_gshare, index, gshare_update(Read(bht_gshare, index), outcome))
        /\ ghistory' = gshare_shift(ghistory, outcome)
        /\ warned' = (warned \/ gshare_warns(pc))
        /\ UNCHANGED <<tournVars, tageVars>>

\* cleanup_gshare: free(bht_gshare) without clearing the pointer.  free(NULL)
\* does nothing; otherwise the pointer dangles from here on.
cleanup_gshare ==
    /\ bht_gshare' = IF bht_gshare.alloc THEN Freed ELSE bht_gshare
    /\ UNCHANGED <<ghistory, tournVars, tageVars>>

\* train_gshare through a dangling pointer: the switch reads an
\* indeterminate counter, the store goes to freed memory, and the history
\* register is shifted as ever.
train_gshare_freed(pc, outcome) ==
    /\ \E read \in gshare_freed_reads : warned' = (warned \/ read[2])
    /\ ghistory' = gshare_shift(ghistory, outcome)
    /\ UNCHANGED <<bht_gshare, tournVars, tageVars>>

(***************************************************************************)
(* Tournament.                                                             *)
(***************************************************************************)
init_localHistory == Filled(0)
init_localPred == Filled(T_LPT_INIT)
init_globalPred == Filled(T_GPT_INIT)
init_chooser == Filled(T_CHOOSER_INIT)

lht_index(pc) == pc % T_LHT_ENTRIES
local_index(pc) == Read(t_localHistory, lht_index(pc)) % T_LPT_ENTRIES
global_index == t_ghr % T_GPT_ENTRIES

local_taken(pc) == PREDICT3b(Read(t_localPred, local_index(pc)))
global_taken == PREDICT2b(Read(t_globalPred, global_index))
prefer_global == PREDICT2b(Read(t_chooser, global_index))

\* Mutant: the chooser is read the wrong way round.
tournament_predict_Inverted(pc) == IF prefer_global # 0 THEN local_taken(pc) ELSE global_taken
tournament_predict(pc) == IF prefer_global # 0 THEN global_taken ELSE local_taken(pc)

tournament_predict_warns(pc) ==
    \/ Undefined3b(Read(t_localPred, local_index(pc)))
    \/ Undefined2b(Read(t_globalPred, global_index))
    \/ Undefined2b(Read(t_chooser, global_index))

\* Mutant: the chooser moves away from the side that was right.
chooser_update_Swapped(c, local, global, outcome) ==
    IF local # global
    THEN IF global = outcome THEN COUNTERUPDATE2b(c, NOTTAKEN)
         ELSE IF local = outcome THEN COUNTERUPDATE2b(c, TAKEN)
         ELSE c
    ELSE c

\* The chooser entry after the "update chooser only when local and global
\* disagree" block, from the predictions read before the counter updates.
chooser_update(c, local, global, outcome) ==
    IF local # global
    THEN IF global = outcome THEN COUNTERUPDATE2b(c, TAKEN)
         ELSE IF local = outcome THEN COUNTERUPDATE2b(c, NOTTAKEN)
         ELSE c
    ELSE c

\* Mutant: the history is shifted but not masked to its width.
shift_masked_Unmasked(hist, outcome, entries) == 2 * hist + outcome

\* ((history << 1) | outcome) & (entries - 1)
shift_masked(hist, outcome, entries) == (2 * hist + outcome) % entries

\* Mutant: the chooser is decided from the predictions of the counters as
\* they are after their own update.
train_tournament_PostUpdate(pc, outcome) ==
    LET li == local_index(pc)
        gi == global_index
        lc == Read(t_localPred, li)
        gc == Read(t_globalPred, gi)
        cc == Read(t_chooser, gi)
        lt == PREDICT3b(COUNTERUPDATE3b(lc, outcome))
        gt == PREDICT2b(COUNTERUPDATE2b(gc, outcome))
    IN  /\ t_localPred' = Write(t_localPred, li, COUNTERUPDATE3b(lc, outcome))
        /\ t_globalPred' = Write(t_globalPred, gi, COUNTERUPDATE2b(gc, outcome))
        /\ t_chooser' = Write(t_chooser, gi, chooser_update(cc, lt, gt, outcome))
        /\ t_localHistory' = Write(t_localHistory, lht_index(pc),
                                   shift_masked(Read(t_localHistory, lht_index(pc)), outcome, T_LHT_ENTRIES))
        /\ t_ghr' = shift_masked(t_ghr, outcome, T_GPT_ENTRIES)
        /\ warned' = (warned \/ Undefined3b(lc) \/ Undefined2b(gc)
                             \/ (lt # gt /\ (gt = outcome \/ lt = outcome) /\ Undefined2b(cc)))
        /\ UNCHANGED <<gshareVars, tageVars>>

train_tournament(pc, outcome) ==
    LET li == local_index(pc)
        gi == global_index
        lt == local_taken(pc)
        gt == global_taken
        lc == Read(t_localPred, li)
        gc == Read(t_globalPred, gi)
        cc == Read(t_chooser, gi)
    IN  /\ t_localPred' = Write(t_localPred, li, COUNTERUPDATE3b(lc, outcome))
        /\ t_globalPred' = Write(t_globalPred, gi, COUNTERUPDATE2b(gc, outcome))
        /\ t_chooser' = Write(t_chooser, gi, chooser_update(cc, lt, gt, outcome))
        /\ t_localHistory' = Write(t_localHistory, lht_index(pc),
                                   shift_masked(Read(t_localHistory, lht_index(pc)), outcome, T_LHT_ENTRIES))
        /\ t_ghr' = shift_masked(t_ghr, outcome, T_GPT_ENTRIES)
        /\ warned' = (warned \/ Undefined3b(lc) \/ Undefined2b(gc)
                             \/ (lt # gt /\ (gt = outcome \/ lt = outcome) /\ Undefined2b(cc)))
        /\ UNCHANGED <<gshareVars, tageVars>>

\* cleanup_tournament: every non-NULL table is freed and its pointer set to
\* NULL.
cleanup_tournament ==
    /\ t_localHistory' = NullTable
    /\ t_localPred' = NullTable
    /\ t_globalPred' = NullTable
    /\ t_chooser' = NullTable
    /\ UNCHANGED <<t_ghr, gshareVars, tageVars>>

(***************************************************************************)
(* TAGE (the Custom predictor).                                            *)
(***************************************************************************)
Tables == 0 .. (TAGE_NUM_TAGGED - 1)

init_tage_entry == [tag |-> TAGE_INVALID_TAG, ctr |-> TAGE_CTR_INIT, u |-> TAGE_U_INIT]
init_tage_bimodal == Filled(WT)
init_tage_tables == [t \in Tables |-> Filled(init_tage_entry)]

\* The result is a uint32_t.  hist is below 2^ghistoryBits in every state
\* (line 360), so for len >= 31 the mask keeps hist whole; the model never
\* forms 2^len for those lengths.
get_hist_bits(hist, len) == IF len >= 31 THEN hist ELSE hist % (2 ^ len)

\* (pc ^ (h * 0x9e3779b9u) ^ (table * 0xabcdefu)) & (TAGE_TAGGED_SIZE - 1):
\* the low 12 bits of a xor are the xor of the low 12 bits, and the low 12
\* bits of the 32-bit product are those of (h mod 2^12) * 0x9b9.
tage_index(pc, hist, table) ==
    LET h == get_hist_bits(hist, tage_hist_lengths[table + 1])
    IN  XOR(XOR(pc % TAGE_TAGGED_SIZE,
                ((h % TAGE_TAGGED_SIZE) * TAGE_HASH_MUL_LOW) % TAGE_TAGGED_SIZE),
            (table * TAGE_TABLE_MUL) % TAGE_TAGGED_SIZE)

\* (pc ^ (h >> (table + 1))) & ((1u << TAGE_TAG_BITS) - 1)
tage_tag(pc, hist, table) ==
    LET h == get_hist_bits(hist, tage_hist_lengths[table + 1])
    IN  XOR(pc % (2 ^ TAGE_TAG_BITS), (h \div (2 ^ (table + 1))) % (2 ^ TAGE_TAG_BITS))

tage_entry(pc, t) == Read(tage_tables[t], tage_index(pc, tage_ghist, t))
bim_index(pc) == pc % TAGE_BIMODAL_SIZE
bim_pred(pc) == PREDICT2b(Read(tage_bimodal, bim_index(pc)))

\* The tables whose entry at idx_t carries tag_t.
tage_hits(pc) == {t \in Tables : tage_entry(pc, t).tag = tage_tag(pc, tage_ghist, t)}
\* The search loop from the longest history down: the first hit is the
\* provider, the second the alternate; -1 when there is none.
first_hit(hits) == IF hits = {} THEN -1 ELSE Max(hits)
second_hit(hits) == IF Cardinality(hits) < 2 THEN -1 ELSE Max(hits \ {Max(hits)})
tage_provider(pc) == first_hit(tage_hits(pc))
tage_alt(pc) == second_hit(tage_hits(pc))
\* The prediction of table t's entry for pc; of the bimodal when t = -1.
table_pred(pc, t) == IF t # -1 THEN PREDICT3b(tage_entry(pc, t).ctr) ELSE bim_pred(pc)
provider_pred(pc) == table_pred(pc, tage_provider(pc))
alt_pred(pc) == table_pred(pc, tage_alt(pc))

\* Mutant: the alternate's prediction is returned in place of the provider's.
tage_predict_Alternate(pc) ==
    LET provider == tage_provider(pc)
    IN  IF provider # -1 THEN alt_pred(pc) ELSE bim_pred(pc)

tage_predict(pc) ==
    LET provider == tage_provider(pc)
    IN  IF provider # -1 THEN table_pred(pc, provider) ELSE bim_pred(pc)

\* The loop evaluates PREDICT3b on every hitting entry.
tage_predict_warns(pc) ==
    \/ Undefined2b(Read(tage_bimodal, bim_index(pc)))
    \/ \E t \in tage_hits(pc) : Undefined3b(tage_entry(pc, t).ctr)

\* Mutant: an allocated counter is not biased toward the outcome.
alloc_ctr_Neutral(outcome) == TAGE_CTR_INIT

\* e->ctr = TAGE_CTR_INIT + (outcome ? 1 : -1), stored in a uint8_t, then
\* clamped from above; the test e->ctr < 0 is never true of a uint8_t.
alloc_ctr(outcome) ==
    LET c == (TAGE_CTR_INIT + (IF outcome # 0 THEN 1 ELSE -1)) % 256
    IN  IF c > 7 THEN 7 ELSE c

\* The provider's entry after COUNTERUPDATE3b and the two useful-counter ifs.
provider_update(e, ppred, alt, apred, outcome) ==
    LET u1 == IF ppred = outcome /\ alt # -1 /\ apred # outcome
              THEN COUNTERUPDATE2b(e.u, TAKEN) ELSE e.u
        u2 == IF ppred # outcome /\ alt # -1 /\ apred = outcome
              THEN COUNTERUPDATE2b(u1, NOTTAKEN) ELSE u1
    IN  [tag |-> e.tag, ctr |-> COUNTERUPDATE3b(e.ctr, outcome), u |-> u2]

\* Mutant: the bimodal is left alone when a provider exists.
bimodal_step_Skipped(c, outcome) == c

\* "update bimodal as alternate": ++ below ST, -- above SN.
bimodal_step(c, outcome) ==
    IF outcome = TAKEN THEN (IF c < ST THEN c + 1 ELSE c)
    ELSE (IF c > SN THEN c - 1 ELSE c)

\* The allocation loop: the shortest-history table whose entry at idx_t has
\* u = 0 (-1 when every entry has u > 0), and the tables it passes over.
alloc_table(pc) ==
    LET free == {t \in Tables : tage_entry(pc, t).u = 0}
    IN  IF free = {} THEN -1 ELSE CHOOSE t \in free : \A s \in free : t <= s
skipped_before(first) == {t \in Tables : first = -1 \/ t < first}
alloc_skipped(pc) == skipped_before(alloc_table(pc))

\* Mutant: a fresh entry is allocated with u = 1.
alloc_entry_Useful(pc, outcome, t) ==
    [tag |-> tage_tag(pc, tage_ghist, t), ctr |-> alloc_ctr(outcome), u |-> 1]

\* The entry allocated for (pc, outcome) in table t.
alloc_entry(pc, outcome, t) ==
    [tag |-> tage_tag(pc, tage_ghist, t), ctr |-> alloc_ctr(outcome), u |-> 0]

\* The tagged tables after the allocation loop that claims table first;
\* decay says for which of the passed-over tables (rand() & 0x3F) == 0 came
\* out true.
tables_after_alloc(pc, outcome, first, decay) ==
    [t \in Tables |->
        IF t = first
        THEN Write(tage_tables[t], tage_index(pc, tage_ghist, t), alloc_entry(pc, outcome, t))
        ELSE IF t \in DOMAIN decay /\ decay[t] /\ tage_entry(pc, t).u > 0
             THEN Write(tage_tables[t], tage_index(pc, tage_ghist, t),
                        [tage_entry(pc, t) EXCEPT !.u = @ - 1])
        ELSE tage_tables[t]]

train_tage(pc, outcome) ==
    LET hits == tage_hits(pc)
        provider == first_hit(hits)
        alt == second_hit(hits)
        ppred == table_pred(pc, provider)
        apred == table_pred(pc, alt)
        bim == Read(tage_bimodal, bim_index(pc))
        first == alloc_table(pc)
    IN  /\ IF provider # -1
           THEN LET idx == tage_index(pc, tage_ghist, provider)
                    e == Read(tage_tables[provider], idx)
                IN  /\ tage_tables' = [tage_tables EXCEPT ![provider] =
                            Write(@, idx, provider_update(e, ppred, alt, apred, outcome))]
                    /\ tage_bimodal' = IF alt = -1
                                       THEN Write(tage_bimodal, bim_index(pc), bimodal_step(bim, outcome))
                                       ELSE tage_bimodal
                    /\ warned' = (warned \/ Undefined2b(bim)
                                         \/ (\E t \in hits : Undefined3b(tage_entry(pc, t).ctr))
                                         \/ (alt # -1 /\ ppred # apred /\ Undefined2b(e.u)))
           ELSE /\ tage_bimodal' = Write(tage_bimodal, bim_index(pc), COUNTERUPDATE2b(bim, outcome))
                /\ \E decay \in [skipped_before(first) -> BOOLEAN] :
                       tage_tables' = tables_after_alloc(pc, outcome, first, decay)
                /\ warned' = (warned \/ Undefined2b(bim))
        /\ tage_ghist' = shift_masked(tage_ghist, outcome, 2 ^ ghistoryBits)
        /\ UNCHANGED <<gshareVars, tournVars>>

\* cleanup_tage: every non-NULL table is freed and its pointer, and the
\* pointer to the array of tables, set to NULL.
cleanup_tage ==
    /\ tage_bimodal' = NullTable
    /\ tage_tables' = [t \in Tables |-> NullTable]
    /\ UNCHANGED <<tage_ghist, gshareVars, tournVars>>

(***************************************************************************)
(* The driver.                                                             *)
(***************************************************************************)
BpTypes == {STATIC, GSHARE, TOURNAMENT, CUSTOM, UNKNOWN_TYPE}

\* The process is alive: it has neither exited nor faulted.
Running == lastCall[1] \notin {"exit", "fault"}

\* The selected variant reads its tables through a NULL pointer.
NullDeref ==
    CASE bpType = GSHARE -> ~bht_gshare.alloc
      [] bpType = TOURNAMENT -> \/ ~t_localHistory.alloc \/ ~t_localPred.alloc
                                \/ ~t_globalPred.alloc \/ ~t_chooser.alloc
      [] bpType = CUSTOM -> ~tage_bimodal.alloc \/ \E t \in Tables : ~tage_tables[t].alloc
      [] OTHER -> FALSE
\* The selected variant reads its table through a dangling pointer.
UseAfterFree == bpType = GSHARE /\ bht_gshare.alloc /\ bht_gshare.freed

\* The call does not return: the process dies on a memory fault.
Fault ==
    /\ lastCall' = <<"fault", 0, 0>>
    /\ UNCHANGED <<predictorVars, warned, trace>>

\* The state init_predictor leaves: the tables of the selected variant are
\* allocated and filled, every other pointer is NULL, and the history
\* registers are zero.
init_predictor ==
    /\ bht_gshare = IF bpType = GSHARE THEN init_gshare_bht ELSE NullTable
    /\ ghistory = 0
    /\ t_localHistory = IF bpType = TOURNAMENT THEN init_localHistory ELSE NullTable
    /\ t_localPred = IF bpType = TOURNAMENT THEN init_localPred ELSE NullTable
    /\ t_globalPred = IF bpType = TOURNAMENT THEN init_globalPred ELSE NullTable
    /\ t_chooser = IF bpType = TOURNAMENT THEN init_chooser ELSE NullTable
    /\ t_ghr = 0
    /\ tage_bimodal = IF bpType = CUSTOM THEN init_tage_bimodal ELSE NullTable
    /\ tage_tables = IF bpType = CUSTOM THEN init_tage_tables ELSE [t \in Tables |-> NullTable]
    /\ tage_ghist = 0

\* Mutant: the Static predictor predicts not-taken.
make_prediction_StaticNotTaken(pc, target, direct) ==
    CASE bpType = STATIC -> NOTTAKEN
      [] bpType = GSHARE -> gshare_predict(pc)
      [] bpType = TOURNAMENT -> tournament_predict(pc)
      [] bpType = CUSTOM -> tage_predict(pc)
      [] OTHER -> NOTTAKEN
\* Mutant: an unknown variant falls through to the Static answer.
make_prediction_DefaultTaken(pc, target, direct) ==
    CASE bpType = STATIC -> TAKEN
      [] bpType = GSHARE -> gshare_predict(pc)
      [] bpType = TOURNAMENT -> tournament_predict(pc)
      [] bpType = CUSTOM -> tage_predict(pc)
      [] OTHER -> TAKEN

\* The value make_prediction returns; target and direct are not used.
make_prediction(pc, target, direct) ==
    CASE bpType = STATIC -> TAKEN
      [] bpType = GSHARE -> gshare_predict(pc)
      [] bpType = TOURNAMENT -> tournament_predict(pc)
      [] bpType = CUSTOM -> tage_predict(pc)
      [] OTHER -> NOTTAKEN

make_prediction_warns(pc) ==
    CASE bpType = GSHARE -> gshare_warns(pc)
      [] bpType = TOURNAMENT -> tournament_predict_warns(pc)
      [] bpType = CUSTOM -> tage_predict_warns(pc)
      [] OTHER -> FALSE

\* Mutant: a prediction shifts itself into the gshare and tournament
\* histories, as a speculative history update would.
MakePrediction_Speculative(pc, target, direct) ==
    /\ lastCall' = <<"predict", pc, make_prediction(pc, target, direct)>>
    /\ warned' = (warned \/ make_prediction_warns(pc))
    /\ ghistory' = IF bpType = GSHARE
                   THEN shift_masked(ghistory, make_prediction(pc, target, direct), 2 ^ ghistoryBits)
                   ELSE ghistory
    /\ t_ghr' = IF bpType = TOURNAMENT
                THEN shift_masked(t_ghr, make_prediction(pc, target, direct), T_GPT_ENTRIES)
                ELSE t_ghr
    /\ UNCHANGED <<bpType, bht_gshare, t_localHistory, t_localPred, t_globalPred, t_chooser,
                   tageVars, trace>>

\* A call of make_prediction.  Reading a table through a NULL pointer
\* faults; reading it through a dangling pointer is undefined: the call
\* faults or switches on an indeterminate counter.
MakePrediction(pc, target, direct) ==
    IF NullDeref THEN Fault
    ELSE IF UseAfterFree
    THEN \/ Fault
         \/ \E read \in gshare_freed_reads :
                /\ lastCall' = <<"predict", pc, read[1]>>
                /\ warned' = (warned \/ read[2])
                /\ UNCHANGED <<predictorVars, trace>>
    ELSE /\ lastCall' = <<"predict", pc, make_prediction(pc, target, direct)>>
         /\ warned' = (warned \/ make_prediction_warns(pc))
         /\ UNCHANGED <<predictorVars, trace>>

\* Mutant: the condition flag is not tested.
train_predictor_Always(pc, target, outcome, condition, call, ret, direct) ==
    /\ lastCall' = <<"train", condition, 0>>
    /\ IF bpType = GSHARE THEN train_gshare(pc, outcome)
       ELSE IF bpType = TOURNAMENT THEN train_tournament(pc, outcome)
       ELSE IF bpType = CUSTOM THEN train_tage(pc, outcome)
       ELSE UNCHANGED <<gshareVars, tournVars, tageVars, warned>>
    /\ trace' = IF condition # 0 THEN Append(trace, <<pc, outcome>>) ELSE trace
    /\ UNCHANGED bpType

\* A call of train_predictor.  A conditional train reads and writes the
\* tables of the selected variant: through a NULL pointer it faults, through
\* a dangling pointer it faults or goes on with indeterminate memory.
train_predictor(pc, target, outcome, condition, call, ret, direct) ==
    IF condition # 0 /\ NullDeref THEN Fault
    ELSE IF condition # 0 /\ UseAfterFree
    THEN \/ Fault
         \/ /\ lastCall' = <<"train", condition, 0>>
            /\ train_gshare_freed(pc, outcome)
            /\ trace' = Append(trace, <<pc, outcome>>)
            /\ UNCHANGED bpType
    ELSE /\ lastCall' = <<"train", condition, 0>>
         /\ IF condition # 0
            THEN /\ IF bpType = GSHARE THEN train_gshare(pc, outcome)
                    ELSE IF bpType = TOURNAMENT THEN train_tournament(pc, outcome)
                    ELSE IF bpType = CUSTOM THEN train_tage(pc, outcome)
                    ELSE UNCHANGED <<gshareVars, tournVars, tageVars, warned>>
                 /\ trace' = Append(trace, <<pc, outcome>>)
            ELSE UNCHANGED <<gshareVars, tournVars, tageVars, warned, trace>>
         /\ UNCHANGED bpType

\* A call of cleanup_gshare.  Freeing the block a second time is undefined:
\* the allocator aborts the process or the call returns.
CleanupGshare ==
    /\ cleanup_gshare
    /\ lastCall' \in IF bht_gshare.alloc /\ bht_gshare.freed
                     THEN {<<"cleanup", 0, 0>>, <<"fault", 0, 0>>}
                     ELSE {<<"cleanup", 0, 0>>}
    /\ UNCHANGED <<bpType, warned, trace>>

\* A call of cleanup_tournament.
CleanupTournament ==
    /\ cleanup_tournament
    /\ lastCall' = <<"cleanup", 0, 0>>
    /\ UNCHANGED <<bpType, warned, trace>>

\* A call of cleanup_tage.
CleanupTage ==
    /\ cleanup_tage
    /\ lastCall' = <<"cleanup", 0, 0>>
    /\ UNCHANGED <<bpType, warned, trace>>

(***************************************************************************)
(* Specifications.                                                         *)
(***************************************************************************)
\* Spec: any variant, any mix of predictions, trains and cleanups over PCs,
\* with at most MaxTrains conditional trains, for as long as the process is
\* alive.
Init ==
    /\ bpType \in BpTypes
    /\ init_predictor
    /\ warned = FALSE
    /\ lastCall = <<"init", 0, 0>>
    /\ trace = <<>>

\* The arguments the predictor ignores are passed as 0: no definition above
\* mentions them, so other values give the same steps.
Predict == Running /\ \E pc \in PCs : MakePrediction(pc, 0, 0)

Train ==
    /\ Running
    /\ \E pc \in PCs, outcome \in Outcomes, condition \in {0, 1} :
           /\ condition # 0 => Len(trace) < MaxTrains
           /\ train_predictor(pc, 0, outcome, condition, 0, 0, 0)

Cleanup == Running /\ (CleanupGshare \/ CleanupTournament \/ CleanupTage)

Next == Predict \/ Train \/ Cleanup

Spec == Init /\ [][Next]_vars

\* SpecLong: long traces of conditional trains for the table-based variants.
\* Every train is BaseTrain except for at most MaxDev deviations,
\* which may use any pc of LongPCs and any outcome.
RECURSIVE Deviations(_)
Deviations(tr) ==
    IF tr = <<>> THEN 0
    ELSE (IF tr[Len(tr)] = BaseTrain THEN 0 ELSE 1) + Deviations(SubSeq(tr, 1, Len(tr) - 1))

InitLong == Init /\ bpType \in {GSHARE, TOURNAMENT, CUSTOM}

TrainLong ==
    \E pc \in LongPCs, outcome \in Outcomes :
        /\ Len(trace) < MaxLong
        /\ <<pc, outcome>> # BaseTrain => Deviations(trace) < MaxDev
        /\ train_predictor(pc, 0, outcome, 1, 0, 0, 0)

NextLong == TrainLong

SpecLong == InitLong /\ [][NextLong]_vars

\* SpecRuns: predictions and long traces of conditional trains over LongPCs
\* that consist of at most MaxRuns runs, a run being one train repeated.
\* Within MaxLong trains a run is long enough to fill every history
\* register and then to saturate the counters it selects, and a second run
\* meets the saturated counters with another pc or another outcome.
RECURSIVE Runs(_)
Runs(tr) ==
    IF Len(tr) <= 1 THEN Len(tr)
    ELSE Runs(SubSeq(tr, 1, Len(tr) - 1))
             + (IF tr[Len(tr)] = tr[Len(tr) - 1] THEN 0 ELSE 1)

PredictRuns == Running /\ \E pc \in LongPCs : MakePrediction(pc, 0, 0)

TrainRuns ==
    /\ Running
    /\ \E pc \in LongPCs, outcome \in Outcomes :
           /\ Len(trace) < MaxLong
           /\ (trace # <<>> /\ <<pc, outcome>> # trace[Len(trace)]) => Runs(trace) < MaxRuns
           /\ train_predictor(pc, 0, outcome, 1, 0, 0, 0)

NextRuns == PredictRuns \/ TrainRuns

SpecRuns == Init /\ [][NextRuns]_vars

(***************************************************************************)
(* Initialisation when malloc may fail.                                    *)
(***************************************************************************)
\* The malloc calls of one initialiser, in program order: init_gshare has
\* one, init_tournament four, init_tage one for the bimodal, one for the
\* array of table pointers and one per tagged table.
MallocSites == 1 .. (TAGE_NUM_TAGGED + 2)
\* Memory malloc returned that no loop has filled yet: its contents are
\* indeterminate, so the record has no fill and no w.
Unwritten == [alloc |-> TRUE]

\* init_gshare does not test the pointer: when malloc returns NULL the fill
\* loop stores WN through it.  That store is undefined behaviour; the model
\* records it as the call outcome "fault" and follows the process no further.
init_gshare_alloc(ok) ==
    /\ bht_gshare = IF ok[1] THEN init_gshare_bht ELSE NullTable
    /\ lastCall = IF ok[1] THEN <<"init", 0, 0>> ELSE <<"fault", 0, 0>>

\* init_tournament calls malloc four times, then exits with status 1 if any
\* pointer is NULL, and only then fills the tables.
init_tournament_alloc(ok) ==
    LET all == ok[1] /\ ok[2] /\ ok[3] /\ ok[4]
        got(i, filled) == IF all THEN filled ELSE IF ok[i] THEN Unwritten ELSE NullTable
    IN  /\ t_localHistory = got(1, init_localHistory)
        /\ t_localPred = got(2, init_localPred)
        /\ t_globalPred = got(3, init_globalPred)
        /\ t_chooser = got(4, init_chooser)
        /\ lastCall = IF all THEN <<"init", 0, 0>> ELSE <<"exit", 1, 0>>

\* init_tage tests every pointer right after its malloc and exits with
\* status 1 on NULL; the bimodal and the tagged tables before the failing
\* one have been filled by then.
init_tage_alloc(ok) ==
    LET upto(t) == ok[1] /\ ok[2] /\ \A s \in 0 .. t : ok[s + 3]
    IN  /\ tage_bimodal = IF ok[1] THEN init_tage_bimodal ELSE NullTable
        /\ tage_tables = [t \in Tables |-> IF upto(t) THEN Filled(init_tage_entry) ELSE NullTable]
        /\ lastCall = IF upto(TAGE_NUM_TAGGED - 1) THEN <<"init", 0, 0>> ELSE <<"exit", 1, 0>>

\* The state init_predictor leaves when the mallocs of ok succeed and the
\* others return NULL.
init_predictor_alloc(ok) ==
    /\ IF bpType = GSHARE THEN init_gshare_alloc(ok)
       ELSE bht_gshare = NullTable
    /\ IF bpType = TOURNAMENT THEN init_tournament_alloc(ok)
       ELSE /\ t_localHistory = NullTable /\ t_localPred = NullTable
            /\ t_globalPred = NullTable /\ t_chooser = NullTable
    /\ IF bpType = CUSTOM THEN init_tage_alloc(ok)
       ELSE tage_bimodal = NullTable /\ tage_tables = [t \in Tables |-> NullTable]
    /\ bpType \notin {GSHARE, TOURNAMENT, CUSTOM} => lastCall = <<"init", 0, 0>>
    /\ ghistory = 0 /\ t_ghr = 0 /\ tage_ghist = 0

\* SpecAlloc: Spec with every pattern of malloc failures in init_predictor.
InitAlloc ==
    /\ bpType \in BpTypes
    /\ \E ok \in [MallocSites -> BOOLEAN] : init_predictor_alloc(ok)
    /\ warned = FALSE
    /\ trace = <<>>

PredictAlloc == Predict

TrainAlloc == Train

NextAlloc == PredictAlloc \/ TrainAlloc

SpecAlloc == InitAlloc /\ [][NextAlloc]_vars

(***************************************************************************)
(* SpecCounter: the 2-bit counter updates on their own.  A counter starts  *)
(* in any state of 0..3 and is fed taken updates and then at most as many  *)
(* not-taken ones, through COUNTERUPDATE2b or through the switch of        *)
(* train_gshare.  No predictor table is involved.                          *)
(***************************************************************************)
CounterUpdates == {"COUNTERUPDATE2b", "gshare_update"}
\* One application of the named update.
ApplyUpdate(update, counter, outcome) ==
    IF update = "COUNTERUPDATE2b" THEN COUNTERUPDATE2b(counter, outcome)
    ELSE gshare_update(counter, outcome)
\* How many updates of tr had the given outcome.
Count(tr, outcome) == Cardinality({j \in 1 .. Len(tr) : tr[j][2] = outcome})

InitCounter ==
    /\ bpType = STATIC
    /\ init_predictor
    /\ warned = FALSE
    /\ trace = <<>>
    /\ \E update \in CounterUpdates, start \in {SN, WN, WT, ST} : lastCall = <<update, start, start>>

Update(outcome) ==
    /\ lastCall' = <<lastCall[1], lastCall[2], ApplyUpdate(lastCall[1], lastCall[3], outcome)>>
    /\ trace' = Append(trace, <<lastCall[2], outcome>>)
    /\ warned' = (warned \/ Undefined2b(lastCall[3]))
    /\ UNCHANGED predictorVars

UpdateTaken ==
    /\ Count(trace, NOTTAKEN) = 0
    /\ Len(trace) < MaxK
    /\ Update(TAKEN)

UpdateNotTaken ==
    /\ Count(trace, NOTTAKEN) < Count(trace, TAKEN)
    /\ Update(NOTTAKEN)

NextCounter == UpdateTaken \/ UpdateNotTaken

SpecCounter == InitCounter /\ [][NextCounter]_vars

(***************************************************************************)
(* Vocabulary of the properties.                                           *)
(***************************************************************************)
Min(a, b) == IF a <= b THEN a ELSE b
Bit(b) == IF b THEN TAKEN ELSE NOTTAKEN
TwoBit == 0 .. 3
ThreeBit == 0 .. 7
\* The branch addresses the properties ask predictions for.
AllPCs == PCs \cup LongPCs
\* n copies of the train <<pc, outcome>>.
Repeat(n, pc, outcome) == [i \in 1 .. n |-> <<pc, outcome>>]
\* The number whose binary digits are the last n outcomes of tr, the newest
\* in the least-significant bit.
RECURSIVE RecentValue(_, _)
RecentValue(tr, n) ==
    IF n = 0 \/ tr = <<>> THEN 0
    ELSE tr[Len(tr)][2] + 2 * RecentValue(SubSeq(tr, 1, Len(tr) - 1), n - 1)
AllTaken(tr) == \A j \in 1 .. Len(tr) : tr[j][2] = TAKEN
\* The predictor is in service: init_predictor has returned, the process is
\* alive and no cleanup has released the tables of the selected variant.
InService == Running /\ ~NullDeref /\ ~UseAfterFree

(***************************************************************************)
(* C1.  Every counter stays within its declared range in every reachable   *)
(* state of a predictor in service: Gshare BHT entries, Tournament global  *)
(* counters and chooser entries and TAGE bimodal entries in 0..3,          *)
(* Tournament local counters and TAGE tagged-entry ctr in 0..7, TAGE       *)
(* useful counters in 0..3; and no predict or update switch ever takes its *)
(* "undefined state" default arm.                                          *)
(***************************************************************************)
C1_CountersInRange ==
    InService =>
        /\ Values(bht_gshare) \subseteq TwoBit
        /\ Values(t_globalPred) \subseteq TwoBit
        /\ Values(t_chooser) \subseteq TwoBit
        /\ Values(tage_bimodal) \subseteq TwoBit
        /\ Values(t_localPred) \subseteq ThreeBit
        /\ bpType = CUSTOM =>
               \A t \in Tables : \A e \in Values(tage_tables[t]) : e.ctr \in ThreeBit /\ e.u \in TwoBit
        /\ ~warned

\* A Tournament predictor after seventeen taken trains of pc 0 and three of
\* pc 1: the local counter of the full local history has been stepped up to
\* 7, the global counter of the full GHR was stepped at 3 and holds 3, and
\* the chooser entry there, written by the trains of pc 1, was stepped at 3
\* and holds 3.
C1_Witness ==
    /\ bpType = TOURNAMENT
    /\ InService
    /\ trace = Repeat(17, 0, TAKEN) \o Repeat(3, 1, TAKEN)
    /\ Read(t_localPred, 2047) = 7
    /\ Read(t_globalPred, 8191) = 3
    /\ Read(t_chooser, 8191) = 3

(***************************************************************************)
(* C2.  make_prediction never changes predictor state (every table and     *)
(* every history register is unchanged), and in the state a prediction     *)
(* leaves a predictor in service in, a second make_prediction with the     *)
(* same pc returns the value the first one returned.                       *)
(***************************************************************************)
C2_PredictionPure ==
    [][/\ (InService /\ lastCall[1] = "predict") => make_prediction(lastCall[2], 0, 0) = lastCall[3]
       /\ lastCall'[1] = "predict" =>
              \A pc \in PCs : MakePrediction(pc, 0, 0) => UNCHANGED predictorVars]_vars

\* A prediction of TAKEN made by a table-based predictor that was trained.
C2_Witness ==
    /\ bpType \in {GSHARE, TOURNAMENT, CUSTOM}
    /\ InService
    /\ Len(trace) >= 2
    /\ lastCall[1] = "predict"
    /\ lastCall[3] = TAKEN

(***************************************************************************)
(* C3.  train_predictor called with condition = 0 leaves the whole         *)
(* predictor state (every table entry and every history register)          *)
(* unchanged, for every variant, pc, outcome and value of the other        *)
(* arguments.                                                              *)
(***************************************************************************)
C3_UnconditionalNoOp ==
    [][\A pc \in PCs, outcome \in Outcomes, x \in Ignored :
          train_predictor(pc, x, outcome, 0, x, x, x) => UNCHANGED predictorVars]_vars

\* A non-conditional train has just been made on a trained predictor.
C3_Witness ==
    /\ bpType \in {GSHARE, TOURNAMENT, CUSTOM}
    /\ InService
    /\ Len(trace) >= 2
    /\ lastCall = <<"train", 0, 0>>

(***************************************************************************)
(* C4.  Gshare bring-up from a fresh predictor, ghistoryBits = 15.         *)
(* As claimed: the first make_prediction(0x1000) returns NOTTAKEN; after   *)
(* one train(0x1000, TAKEN) the entry is WT and make_prediction(0x1000)    *)
(* returns TAKEN; after a second one the entry is ST and the prediction    *)
(* is still TAKEN.                                                         *)
(***************************************************************************)
C4_Original ==
    (bpType = GSHARE /\ InService) =>
        /\ trace = <<>> => make_prediction(4096, 0, 0) = NOTTAKEN
        /\ trace = Repeat(1, 4096, TAKEN) =>
               /\ Read(bht_gshare, 4096) = WT
               /\ make_prediction(4096, 0, 0) = TAKEN
        /\ trace = Repeat(2, 4096, TAKEN) =>
               /\ Read(bht_gshare, 4096) = ST
               /\ make_prediction(4096, 0, 0) = TAKEN

(***************************************************************************)
(* C4, as amended.  The first make_prediction(0x1000) returns NOTTAKEN.    *)
(* After one train(0x1000, TAKEN), BHT[0x1000] is WT, but ghistory is 1,   *)
(* so make_prediction(0x1000) reads BHT[0x1001], still WN, and returns     *)
(* NOTTAKEN.  The second train(0x1000, TAKEN) updates BHT[0x1001] to WT    *)
(* and leaves BHT[0x1000] at WT; ghistory is 3 and make_prediction(0x1000) *)
(* reads BHT[0x1003], still WN, and returns NOTTAKEN.                      *)
(***************************************************************************)
C4_GshareBringUp ==
    (bpType = GSHARE /\ InService) =>
        /\ trace = <<>> => make_prediction(4096, 0, 0) = NOTTAKEN
        /\ trace = Repeat(1, 4096, TAKEN) =>
               /\ Read(bht_gshare, 4096) = WT
               /\ ghistory = 1
               /\ gshare_index(4096) = 4097
               /\ Read(bht_gshare, 4097) = WN
               /\ make_prediction(4096, 0, 0) = NOTTAKEN
        /\ trace = Repeat(2, 4096, TAKEN) =>
               /\ Read(bht_gshare, 4096) = WT
               /\ Read(bht_gshare, 4097) = WT
               /\ ghistory = 3
               /\ gshare_index(4096) = 4099
               /\ Read(bht_gshare, 4099) = WN
               /\ make_prediction(4096, 0, 0) = NOTTAKEN

\* The predictor after the two trains of the scenario.
C4_Witness == bpType = GSHARE /\ InService /\ trace = Repeat(2, 4096, TAKEN)

(***************************************************************************)
(* C5.  Gshare history shift: after k conditional trains from a fresh      *)
(* predictor the low ghistoryBits bits of ghistory are the most recent     *)
(* min(k, ghistoryBits) outcomes, the newest in the least-significant bit, *)
(* and make_prediction(pc) reads BHT[(pc XOR ghistory) AND (2^15 - 1)].    *)
(* After twenty trains of (pc = 0, TAKEN) the low 15 bits of ghistory are  *)
(* 0x7FFF and make_prediction(0) reads BHT[0x7FFF].                        *)
(***************************************************************************)
C5_GshareHistory ==
    bpType = GSHARE =>
        /\ ghistory % (2 ^ ghistoryBits) = RecentValue(trace, Min(Len(trace), ghistoryBits))
        /\ \A pc \in AllPCs :
               /\ gshare_index(pc) = XOR(pc, ghistory) % (2 ^ ghistoryBits)
               /\ make_prediction(pc, 0, 0) =
                      Bit(Read(bht_gshare, XOR(pc, ghistory) % (2 ^ ghistoryBits)) >= 2)
        /\ trace = Repeat(20, 0, TAKEN) =>
               /\ ghistory % (2 ^ ghistoryBits) = 32767
               /\ gshare_index(0) = 32767

\* Twenty taken trains of pc 0 have been fed: five outcomes were shifted
\* out of the low 15 bits.
C5_Witness == bpType = GSHARE /\ trace = Repeat(20, 0, TAKEN) /\ ghistory > 32767

\* Gshare under an all-TAKEN trace.
\* The low history bits before train j of an all-TAKEN trace.
TakenHist(j) == (2 ^ Min(j - 1, ghistoryBits)) - 1
\* The BHT index train j of the all-TAKEN trace tr updates.
TakenIndex(tr, j) == XOR(tr[j][1] % (2 ^ ghistoryBits), TakenHist(j))
\* How many trains of tr update entry i.
TimesIndexed(tr, i) == Cardinality({j \in 1 .. Len(tr) : TakenIndex(tr, j) = i})
\* The entries a train of an all-TAKEN continuation of tr over LongPCs can
\* still update: the history from now on is 2^k - 1 for some k >= Len(tr).
StillIndexable(tr) ==
    {XOR(pc % (2 ^ ghistoryBits), (2 ^ k) - 1) :
        pc \in LongPCs, k \in Min(Len(tr), ghistoryBits) .. ghistoryBits}

(***************************************************************************)
(* C6, as claimed: along an all-TAKEN trace every BHT entry that a train   *)
(* indexed eventually holds ST.  A finite run refutes it in this form: an  *)
(* indexed entry that no train of any all-TAKEN continuation can index     *)
(* again already holds ST.                                                 *)
(***************************************************************************)
C6_Original ==
    (bpType = GSHARE /\ AllTaken(trace)) =>
        \A j \in 1 .. Len(trace) :
            TakenIndex(trace, j) \notin StillIndexable(trace) =>
                Read(bht_gshare, TakenIndex(trace, j)) = ST

(***************************************************************************)
(* C6, as amended: along an all-TAKEN trace every BHT entry that exactly   *)
(* one train indexed holds WT, and stays WT for as long as no further      *)
(* train indexes it; every entry that two or more trains indexed holds ST; *)
(* and make_prediction returns TAKEN whenever it reads an indexed entry.   *)
(***************************************************************************)
C6_GshareAllTaken ==
    (bpType = GSHARE /\ AllTaken(trace)) =>
        /\ \A j \in 1 .. Len(trace) :
               Read(bht_gshare, TakenIndex(trace, j)) =
                   IF TimesIndexed(trace, TakenIndex(trace, j)) >= 2 THEN ST ELSE WT
        /\ \A pc \in AllPCs :
               (\E j \in 1 .. Len(trace) : TakenIndex(trace, j) = gshare_index(pc)) =>
                   make_prediction(pc, 0, 0) = TAKEN

\* The all-ones history is reached, its entry was trained to ST, and the
\* entry of the first train was indexed once and can never be indexed again.
C6_Witness ==
    /\ bpType = GSHARE
    /\ trace = Repeat(18, 0, TAKEN)
    /\ Read(bht_gshare, 32767) = ST
    /\ Read(bht_gshare, 0) = WT
    /\ 0 \notin StillIndexable(trace)

(***************************************************************************)
(* C7.  In every Tournament state and for every pc, make_prediction(pc)    *)
(* is global_taken = (GPT[ghr AND (2^13-1)] >= 2) when                     *)
(* chooser[ghr AND (2^13-1)] >= 2, and otherwise                           *)
(* local_taken = (LPT[LHT[pc AND (2^11-1)] AND (2^11-1)] >= 4).            *)
(***************************************************************************)
C7_TournamentChoice ==
    bpType = TOURNAMENT =>
        \A pc \in AllPCs :
            make_prediction(pc, 0, 0) =
                IF Read(t_chooser, t_ghr % (2 ^ 13)) >= 2
                THEN Bit(Read(t_globalPred, t_ghr % (2 ^ 13)) >= 2)
                ELSE Bit(Read(t_localPred, Read(t_localHistory, pc % (2 ^ 11)) % (2 ^ 11)) >= 4)

\* The chooser prefers global at the current history while the two sides
\* disagree for one pc and agree for another.
C7_Witness ==
    /\ bpType = TOURNAMENT
    /\ Read(t_chooser, global_index) >= 2
    /\ \E pc \in AllPCs : local_taken(pc) # global_taken
    /\ \E pc \in AllPCs : local_taken(pc) = global_taken

\* What C8 says of one step of the predictor.
C8_ChooserStep ==
    \A pc \in AllPCs, outcome \in Outcomes :
    (bpType = TOURNAMENT /\ trace' = Append(trace, <<pc, outcome>>)) =>
        LET gi == t_ghr % (2 ^ 13)
            l == Bit(Read(t_localPred, Read(t_localHistory, pc % (2 ^ 11)) % (2 ^ 11)) >= 4)
            g == Bit(Read(t_globalPred, gi) >= 2)
            c == Read(t_chooser, gi)
            moved == IF l = g THEN c
                     ELSE IF g = outcome THEN Min(c + 1, 3)
                     ELSE IF c = 0 THEN 0 ELSE c - 1
        IN  /\ t_chooser' = Write(t_chooser, gi, moved)
            /\ (c = 3 /\ l # g /\ g = outcome) => Read(t_chooser', gi) = 3
            /\ c = 3 => \A p \in AllPCs : make_prediction(p, 0, 0) = g

(***************************************************************************)
(* C8.  Tournament chooser learning.  On every conditional train, with     *)
(* the local and global predictions and global_index of the state before   *)
(* the train: if the predictions differ, chooser[global_index] moves one   *)
(* saturating step toward 3 when global equalled the outcome and one       *)
(* toward 0 when local did; if they agree it is unchanged; no other        *)
(* chooser entry changes.  An entry at 3 stays at 3 under a further train  *)
(* with local wrong and global right, and while the chooser entry at the   *)
(* current global_index is 3, make_prediction returns the global           *)
(* prediction.                                                             *)
(***************************************************************************)
C8_ChooserLearning == [][C8_ChooserStep]_vars

\* Three taken trains of pc 1 at the full GHR, each with local wrong and
\* global right, have been made: the chooser entry there went from 1 to 3
\* with the first two and was stepped at 3 by the third; the two sides still
\* disagree for pc 1.
C8_Witness ==
    /\ bpType = TOURNAMENT
    /\ trace = Repeat(15, 0, TAKEN) \o Repeat(3, 1, TAKEN)
    /\ global_index = 8191
    /\ Read(t_chooser, global_index) = 3
    /\ local_taken(1) # global_taken

(***************************************************************************)
(* C9.  Right after init_predictor with the Tournament variant every local  *)
(* counter is 4, every global counter and every chooser entry is 2, every  *)
(* local history is 0 and the GHR is 0.  init_tournament stores            *)
(* T_LPT_INIT = T_GPT_INIT = T_CHOOSER_INIT = 1 instead.                   *)
(***************************************************************************)
C9_WeaklyTakenInit ==
    (bpType = TOURNAMENT /\ lastCall[1] = "init") =>
        /\ \A i \in 0 .. (T_LPT_ENTRIES - 1) : Read(t_localPred, i) = 4
        /\ \A i \in 0 .. (T_GPT_ENTRIES - 1) : Read(t_globalPred, i) = 2
        /\ \A i \in 0 .. (T_CHOOSER_ENTRIES - 1) : Read(t_chooser, i) = 2
        /\ \A i \in 0 .. (T_LHT_ENTRIES - 1) : Read(t_localHistory, i) = 0
        /\ t_ghr = 0

\* The freshly initialised Tournament predictor: its tables are allocated and
\* entry 0 of the local counters holds T_LPT_INIT.
C9_Witness ==
    /\ bpType = TOURNAMENT
    /\ lastCall[1] = "init"
    /\ trace = <<>>
    /\ t_localPred.alloc
    /\ Read(t_localPred, 0) = T_LPT_INIT

\* What C10 says of one step of the predictor, and of the state before it.
C10_AllocStep ==
    \A pc \in AllPCs, outcome \in Outcomes :
    (bpType = CUSTOM /\ trace' = Append(trace, <<pc, outcome>>)) =>
        LET unused == {t \in Tables : Read(tage_tables[t], tage_index(pc, tage_ghist, t)).u = 0}
            t0 == CHOOSE t \in unused : \A s \in unused : t <= s
            claimed == [tag |-> tage_tag(pc, tage_ghist, t0),
                        ctr |-> IF outcome = TAKEN THEN 5 ELSE 3,
                        u |-> 0]
        IN  (tage_hits(pc) = {} /\ unused # {}) =>
                /\ trace = <<>> => t0 = 0
                /\ tage_tables' = [tage_tables EXCEPT ![t0] =
                                      Write(@, tage_index(pc, tage_ghist, t0), claimed)]
                /\ tage_ghist' = tage_ghist =>
                       /\ tage_provider(pc)' = t0
                       /\ (make_prediction(pc, 0, 0))' = outcome

C10_ProviderPredicts ==
    (bpType = CUSTOM /\ InService) =>
        \A pc \in AllPCs :
            (\E t \in Tables : tage_entry(pc, t).tag = tage_tag(pc, tage_ghist, t)) =>
                /\ tage_provider(pc) \in Tables
                /\ tage_entry(pc, tage_provider(pc)).tag # TAGE_INVALID_TAG
                /\ make_prediction(pc, 0, 0) = Bit(tage_entry(pc, tage_provider(pc)).ctr >= 4)

(***************************************************************************)
(* C10.  TAGE allocation on miss.  On a conditional train(pc, outcome)     *)
(* for which no tagged table hits, the entry at idx_t of the               *)
(* shortest-history table t whose u is 0 (table 0 on a fresh predictor)    *)
(* becomes {tag_t(pc, history), ctr = 5 if TAKEN else 3, u = 0} and no     *)
(* other tagged entry changes.  Whenever the global history has the value  *)
(* it had at that train and the entry still carries that tag,              *)
(* make_prediction(pc) finds a provider and returns the threshold of the   *)
(* provider's counter; right after the train, if the history is unchanged, *)
(* the provider is the allocated entry and the prediction is the outcome.  *)
(***************************************************************************)
C10_AllocationOnMiss == [][C10_AllocStep /\ C10_ProviderPredicts]_vars

\* An entry was allocated by a not-taken train at zero history, the history
\* is still zero, and the entry provides the prediction for its pc.
C10_Witness ==
    /\ bpType = CUSTOM
    /\ InService
    /\ trace = <<<<4096, NOTTAKEN>>>>
    /\ tage_ghist = 0
    /\ tage_provider(4096) = 0
    /\ tage_entry(4096, 0) = [tag |-> 0, ctr |-> 3, u |-> 0]
    /\ lastCall = <<"predict", 4096, NOTTAKEN>>

\* For pc, a provider and a tagged alternate both hit and their predictions
\* disagree.
ProviderAltDisagree(pc) ==
    LET hits == tage_hits(pc)
    IN  /\ Cardinality(hits) >= 2
        /\ table_pred(pc, first_hit(hits)) # table_pred(pc, second_hit(hits))
DisagreeSomewhere == bpType = CUSTOM /\ \E pc \in AllPCs : ProviderAltDisagree(pc)
\* One conditional train of any pc of PCs with any outcome.
AnyTrain == \E pc \in PCs, outcome \in Outcomes : train_predictor(pc, 0, outcome, 1, 0, 0, 0)
\* DisagreeSomewhere holds now or after at most 1, 2, ... conditional trains.
DisagreeWithin1 == DisagreeSomewhere \/ ENABLED (AnyTrain /\ DisagreeSomewhere')
DisagreeWithin2 == DisagreeSomewhere \/ ENABLED (AnyTrain /\ DisagreeWithin1')
DisagreeWithin3 == DisagreeSomewhere \/ ENABLED (AnyTrain /\ DisagreeWithin2')
DisagreeWithin4 == DisagreeSomewhere \/ ENABLED (AnyTrain /\ DisagreeWithin3')
(***************************************************************************)
(* C11.  TAGE useful counter: a configuration in which a provider and a    *)
(* tagged alternate both hit and their predictions disagree is reachable   *)
(* from a fresh predictor.  Stated for the traces of at most four          *)
(* conditional trains over PCs; the updates of u the claim goes on to      *)
(* describe all take place in such a configuration.  The code never        *)
(* reaches one, whatever the length of the trace: see C20.                 *)
(***************************************************************************)
C11_UsefulCounter == (bpType = CUSTOM /\ lastCall[1] = "init") => DisagreeWithin4

\* A provider exists for pc 0x1000 and was right about two further trains;
\* no tagged alternate exists and the provider's useful counter is still 0.
C11_Witness ==
    /\ bpType = CUSTOM
    /\ InService
    /\ trace = Repeat(3, 4096, NOTTAKEN)
    /\ tage_provider(4096) = 0
    /\ tage_alt(4096) = -1
    /\ tage_entry(4096, 0) = [tag |-> 0, ctr |-> 1, u |-> 0]

\* No table is allocated and every history register is zero.
NothingAllocated ==
    /\ bht_gshare = NullTable
    /\ t_localHistory = NullTable /\ t_localPred = NullTable
    /\ t_globalPred = NullTable /\ t_chooser = NullTable
    /\ tage_bimodal = NullTable
    /\ \A t \in Tables : tage_tables[t] = NullTable
    /\ ghistory = 0 /\ t_ghr = 0 /\ tage_ghist = 0

(***************************************************************************)
(* C12.  With the Static variant make_prediction returns TAKEN for every   *)
(* pc after any sequence of train_predictor calls (conditional or not, any *)
(* outcome), and train_predictor changes no state: the state is the one    *)
(* init_predictor left, whatever was fed.                                  *)
(***************************************************************************)
C12_StaticTaken ==
    bpType = STATIC =>
        /\ \A pc \in AllPCs, x \in Ignored : make_prediction(pc, x, x) = TAKEN
        /\ lastCall[1] = "predict" => lastCall[3] = TAKEN
        /\ NothingAllocated
        /\ ~warned

\* The Static predictor was trained with four not-taken branches and then
\* asked.
C12_Witness ==
    /\ bpType = STATIC
    /\ trace = Repeat(4, 4096, NOTTAKEN)
    /\ lastCall = <<"predict", 4096, TAKEN>>

(***************************************************************************)
(* C13.  When bpType is none of STATIC, GSHARE, TOURNAMENT, CUSTOM,        *)
(* init_predictor allocates nothing, make_prediction returns NOTTAKEN for  *)
(* every pc, and train_predictor changes no state, for every call          *)
(* sequence.                                                               *)
(***************************************************************************)
C13_UnknownVariant ==
    bpType \notin {STATIC, GSHARE, TOURNAMENT, CUSTOM} =>
        /\ NothingAllocated
        /\ \A pc \in AllPCs, x \in Ignored : make_prediction(pc, x, x) = NOTTAKEN
        /\ lastCall[1] = "predict" => lastCall[3] = NOTTAKEN
        /\ ~warned

\* A predictor of an unknown variant was trained with taken branches and
\* then asked.
C13_Witness ==
    /\ bpType = UNKNOWN_TYPE
    /\ trace = Repeat(4, 4096, TAKEN)
    /\ lastCall = <<"predict", 4096, NOTTAKEN>>

\* tbl has been stored to by an initialiser.
Written(tbl) == tbl.alloc /\ "fill" \in DOMAIN tbl
\* Some malloc of the selected variant returned NULL.
AllocationFailed ==
    CASE bpType = GSHARE -> ~bht_gshare.alloc
      [] bpType = TOURNAMENT -> \/ ~t_localHistory.alloc \/ ~t_localPred.alloc
                                \/ ~t_globalPred.alloc \/ ~t_chooser.alloc
      [] bpType = CUSTOM -> ~tage_bimodal.alloc \/ \E t \in Tables : ~tage_tables[t].alloc
      [] OTHER -> FALSE
\* Some table of the selected variant has been stored to.
SomeTableWritten ==
    CASE bpType = GSHARE -> Written(bht_gshare)
      [] bpType = TOURNAMENT -> \/ Written(t_localHistory) \/ Written(t_localPred)
                                \/ Written(t_globalPred) \/ Written(t_chooser)
      [] bpType = CUSTOM -> Written(tage_bimodal) \/ \E t \in Tables : Written(tage_tables[t])
      [] OTHER -> FALSE

(***************************************************************************)
(* C14.  For each table-based variant, if any table allocation fails       *)
(* during init_predictor the predictor aborts the process before any table *)
(* is written, so that no initialisation, predict or train step reads or   *)
(* writes an unallocated table.  init_gshare does not test its pointer.    *)
(***************************************************************************)
C14_AllocFailureAborts ==
    /\ lastCall[1] # "fault"
    /\ AllocationFailed =>
           /\ lastCall = <<"exit", 1, 0>>
           /\ ~SomeTableWritten

\* init_gshare has stored through the NULL pointer malloc returned.
C14_Witness == bpType = GSHARE /\ bht_gshare = NullTable /\ lastCall[1] = "fault"

(***************************************************************************)
(* C15.  In every reachable state of the Gshare predictor the global       *)
(* history register ghistory is smaller than 2^ghistoryBits, after any     *)
(* number of conditional trains.  train_gshare shifts the outcome in and   *)
(* never masks the register.                                               *)
(***************************************************************************)
C15_GshareHistoryWidth == bpType = GSHARE => ghistory < 2 ^ ghistoryBits

\* Sixteen taken trains have been fed: the register holds sixteen ones.
C15_Witness == bpType = GSHARE /\ trace = Repeat(16, 0, TAKEN) /\ ghistory = 65535

\* The trains of tr whose pc maps to local-history entry i.
TrainsOfEntry(tr, i) ==
    LET maps(e) == e[1] % (2 ^ 11) = i
    IN  SelectSeq(tr, maps)
\* The last Min(Len(tr), width) outcomes of tr as a number, newest in bit 0.
Recent(tr, width) == RecentValue(tr, Min(Len(tr), width))

(***************************************************************************)
(* C16.  In every reachable state the Tournament GHR is smaller than 2^13, *)
(* every Tournament local-history entry is smaller than 2^11 and the TAGE  *)
(* global history is smaller than 2^ghistoryBits; each holds the most      *)
(* recent outcomes (the local history: of the branches mapping to that     *)
(* entry), the newest in the least-significant bit.                        *)
(***************************************************************************)
C16_MaskedHistories ==
    /\ bpType = TOURNAMENT =>
           /\ t_ghr < 2 ^ 13
           /\ t_ghr = Recent(trace, 13)
           /\ \A i \in {pc % (2 ^ 11) : pc \in AllPCs} \cup DOMAIN t_localHistory.w :
                  /\ Read(t_localHistory, i) < 2 ^ 11
                  /\ Read(t_localHistory, i) = Recent(TrainsOfEntry(trace, i), 11)
    /\ bpType = CUSTOM =>
           /\ tage_ghist < 2 ^ ghistoryBits
           /\ tage_ghist = Recent(trace, ghistoryBits)

\* Twenty taken trains of pc 0 have been fed: outcomes were shifted out of
\* the Tournament GHR and of local-history entry 0, or out of the TAGE
\* history.
C16_Witness ==
    /\ trace = Repeat(20, 0, TAKEN)
    /\ \/ bpType = TOURNAMENT /\ t_ghr = 8191 /\ Read(t_localHistory, 0) = 2047
       \/ bpType = CUSTOM /\ tage_ghist = 32767

\* A counter of the given maximum after one saturating step with outcome.
Stepped(c, outcome, max) ==
    IF outcome = TAKEN THEN Min(c + 1, max) ELSE IF c = 0 THEN 0 ELSE c - 1

\* What C17 says of a Tournament train of (pc, outcome): with l, g and the
\* three indices read in the state before the train, make_prediction uses l
\* and g, and the train writes the stepped counters and the chooser decided
\* by l and g at those indices.
C17_TournamentStep(pc, outcome) ==
    LET hi == pc % (2 ^ 11)
        li == Read(t_localHistory, hi) % (2 ^ 11)
        gi == t_ghr % (2 ^ 13)
        l == Bit(Read(t_localPred, li) >= 4)
        g == Bit(Read(t_globalPred, gi) >= 2)
        c == Read(t_chooser, gi)
    IN  /\ make_prediction(pc, 0, 0) = IF c >= 2 THEN g ELSE l
        /\ t_localPred' = Write(t_localPred, li, Stepped(Read(t_localPred, li), outcome, 7))
        /\ t_globalPred' = Write(t_globalPred, gi, Stepped(Read(t_globalPred, gi), outcome, 3))
        /\ t_chooser' = Write(t_chooser, gi,
                              IF l = g THEN c ELSE Stepped(c, Bit(g = outcome), 3))
        /\ t_localHistory' = Write(t_localHistory, hi,
                                   (2 * Read(t_localHistory, hi) + outcome) % (2 ^ 11))

\* What C17 says of a TAGE train of (pc, outcome): the provider, the
\* alternate, their predictions and the bimodal prediction are those of the
\* state before the train, make_prediction uses them, and every index and
\* tag written is computed from the history before the train.
C17_TageStep(pc, outcome) ==
    LET gh == tage_ghist
        hit(t) == Read(tage_tables[t], tage_index(pc, gh, t)).tag = tage_tag(pc, gh, t)
        hits == {t \in Tables : hit(t)}
        p == IF hits = {} THEN -1 ELSE Max(hits)
        a == IF hits \ {p} = {} THEN -1 ELSE Max(hits \ {p})
        bi == pc % (2 ^ 15)
        b == Bit(Read(tage_bimodal, bi) >= 2)
        pred(t) == IF t = -1 THEN b ELSE Bit(Read(tage_tables[t], tage_index(pc, gh, t)).ctr >= 4)
        e == Read(tage_tables[p], tage_index(pc, gh, p))
        u == IF a # -1 /\ pred(p) # pred(a)
             THEN Stepped(e.u, Bit(pred(p) = outcome), 3) ELSE e.u
        unused == {t \in Tables : Read(tage_tables[t], tage_index(pc, gh, t)).u = 0}
        t0 == CHOOSE t \in unused : \A x \in unused : t <= x
    IN  /\ make_prediction(pc, 0, 0) = pred(p)
        /\ p # -1 =>
               /\ tage_tables' = [tage_tables EXCEPT ![p] =
                      Write(@, tage_index(pc, gh, p),
                            [tag |-> e.tag, ctr |-> Stepped(e.ctr, outcome, 7), u |-> u])]
               /\ a = -1 => tage_bimodal' = Write(tage_bimodal, bi,
                                                  Stepped(Read(tage_bimodal, bi), outcome, 3))
               /\ a # -1 => tage_bimodal' = tage_bimodal
        /\ (p = -1 /\ unused # {}) =>
               /\ tage_bimodal' = Write(tage_bimodal, bi, Stepped(Read(tage_bimodal, bi), outcome, 3))
               /\ Read(tage_tables'[t0], tage_index(pc, gh, t0)) =
                      [tag |-> tage_tag(pc, gh, t0), ctr |-> IF outcome = TAKEN THEN 5 ELSE 3, u |-> 0]

(***************************************************************************)
(* C17.  Within one conditional train the component predictions that       *)
(* drive the policy updates are those of the state at entry to the call:   *)
(* train_tournament decides the chooser update from local_taken and        *)
(* global_taken read before the counters are updated; train_tage decides   *)
(* the useful-counter update and the provider / no-provider branch from    *)
(* the provider, alternate and bimodal predictions read before any         *)
(* counter, tag or history is changed.  These are the component values     *)
(* make_prediction(pc) uses in the pre-train state, and every table index  *)
(* the updates use is computed from the pre-update histories.              *)
(***************************************************************************)
C17_PreUpdatePredictions ==
    [][\A pc \in AllPCs, outcome \in Outcomes :
          trace' = Append(trace, <<pc, outcome>>) =>
              /\ bpType = TOURNAMENT => C17_TournamentStep(pc, outcome)
              /\ bpType = CUSTOM => C17_TageStep(pc, outcome)]_vars

\* Tournament trains have moved a local counter to 4, across the taken
\* threshold, so that its prediction before and after that train differ, and
\* a chooser entry has been moved by a train on which the sides disagreed.
C17_Witness ==
    /\ bpType = TOURNAMENT
    /\ Len(trace) >= 2
    /\ \E i \in DOMAIN t_localPred.w : t_localPred.w[i] = 4
    /\ \E i \in DOMAIN t_chooser.w : t_chooser.w[i] # T_CHOOSER_INIT

(***************************************************************************)
(* C18.  The 2-bit saturating update (COUNTERUPDATE2b and the Gshare       *)
(* switch): every single update is +1 on TAKEN and -1 on NOTTAKEN, clamped *)
(* to 0..3; and for every start state s in 0..3 and every k, k TAKEN       *)
(* updates followed by k NOTTAKEN updates return the counter to s when     *)
(* s + k <= 3 and leave it at max(3 - k, 0) when s + k > 3.                *)
(***************************************************************************)
C18_CounterRoundTrip ==
    [][LET start == lastCall[2]
           before == lastCall[3]
           after == lastCall'[3]
           outcome == trace'[Len(trace')][2]
           k == Count(trace', TAKEN)
       IN  /\ after = IF outcome = TAKEN
                      THEN (IF before + 1 > 3 THEN 3 ELSE before + 1)
                      ELSE (IF before - 1 < 0 THEN 0 ELSE before - 1)
           /\ Count(trace', NOTTAKEN) = k =>
                  after = IF start + k <= 3 THEN start
                          ELSE IF 3 - k > 0 THEN 3 - k ELSE 0
           /\ ~warned']_vars

\* Three taken and three not-taken updates from WT through COUNTERUPDATE2b:
\* the counter saturated at 3 and came down to 0, not back to 2.
C18_Witness ==
    /\ lastCall = <<"COUNTERUPDATE2b", WT, 0>>
    /\ Count(trace, TAKEN) = 3
    /\ Count(trace, NOTTAKEN) = 3

\* The tagged tables whose entry at idx_t carries tag_t(pc, history).
TagMatches(pc) ==
    {t \in Tables :
        Read(tage_tables[t], tage_index(pc, tage_ghist, t)).tag = tage_tag(pc, tage_ghist, t)}

(***************************************************************************)
(* C19.  In every reachable TAGE state and for every pc, tage_predict      *)
(* returns (ctr >= 4) of the entry at idx_t in the largest-index table t   *)
(* whose stored tag equals tag_t(pc, history), and the bimodal prediction  *)
(* (bimodal[pc AND (2^15-1)] >= 2) exactly when no table has such a match; *)
(* an entry still holding the 0xFFFF sentinel is never a provider, because *)
(* tag_t only produces values below 2^7.                                   *)
(***************************************************************************)
C19_TagePredict ==
    (bpType = CUSTOM /\ InService) =>
        \A pc \in AllPCs :
            LET longest == Max(TagMatches(pc))
            IN  /\ tage_provider(pc) = IF TagMatches(pc) = {} THEN -1 ELSE longest
                /\ make_prediction(pc, 0, 0) =
                       IF TagMatches(pc) = {}
                       THEN Bit(Read(tage_bimodal, pc % (2 ^ 15)) >= 2)
                       ELSE Bit(Read(tage_tables[longest], tage_index(pc, tage_ghist, longest)).ctr >= 4)
                /\ \A t \in Tables :
                       /\ tage_tag(pc, tage_ghist, t) < 2 ^ 7
                       /\ Read(tage_tables[t], tage_index(pc, tage_ghist, t)).tag = 65535
                              => t \notin TagMatches(pc)

\* One pc has a provider whose prediction differs from the bimodal's, while
\* another pc has no provider.
C19_Witness ==
    /\ bpType = CUSTOM
    /\ InService
    /\ \E pc \in AllPCs :
           /\ tage_provider(pc) # -1
           /\ table_pred(pc, tage_provider(pc)) # bim_pred(pc)
    /\ \E pc \in AllPCs : tage_provider(pc) = -1

(***************************************************************************)
(* C20.  In every TAGE state reached by make_prediction and                *)
(* train_predictor calls from a fresh init: every useful counter u of      *)
(* every tagged table is 0; every entry of tagged tables 1..6 still holds  *)
(* the invalid tag 0xFFFF; for every pc at most one tagged table hits, so  *)
(* there is no tagged alternate; and the allocation loop claims table 0    *)
(* without passing over any table, so its decay branch is not executed.    *)
(***************************************************************************)
C20_TageImplicit ==
    (bpType = CUSTOM /\ InService) =>
        /\ \A t \in Tables : \A e \in Values(tage_tables[t]) : e.u = 0
        /\ \A t \in Tables \ {0} : \A e \in Values(tage_tables[t]) : e.tag = 65535
        /\ \A pc \in AllPCs :
               /\ Cardinality(TagMatches(pc)) <= 1
               /\ tage_alt(pc) = -1
               /\ alloc_table(pc) = 0
               /\ alloc_skipped(pc) = {}

\* Table 0 holds two allocated entries, one of them since updated as a
\* provider (its ctr is no longer an allocation value), after four trains.
C20_Witness ==
    /\ bpType = CUSTOM
    /\ InService
    /\ Len(trace) = MaxTrains
    /\ Cardinality({e \in Values(tage_tables[0]) : e.tag # 65535}) >= 2
    /\ \E e \in Values(tage_tables[0]) :
           /\ e.tag # 65535
           /\ e.ctr \notin {alloc_ctr(TAKEN), alloc_ctr(NOTTAKEN)}

\* Entry i of a standalone PC-indexed 2-bit bimodal predictor that starts at
\* WT and is trained with tr.
RECURSIVE StandaloneBimodal(_, _)
StandaloneBimodal(tr, i) ==
    IF tr = <<>> THEN WT
    ELSE LET before == StandaloneBimodal(SubSeq(tr, 1, Len(tr) - 1), i)
             last == tr[Len(tr)]
         IN  IF last[1] % (2 ^ 15) = i THEN Stepped(before, last[2], 3) ELSE before

(***************************************************************************)
(* C21.  After any trace of trains the TAGE bimodal table equals the table *)
(* of a standalone PC-indexed 2-bit bimodal predictor initialised to WT    *)
(* and fed the same trace: every train of (pc, outcome) applied exactly    *)
(* one saturating step with outcome to bimodal[pc AND (2^15-1)], with or   *)
(* without a provider, and no other entry changed.                         *)
(***************************************************************************)
C21_BimodalRefinement ==
    bpType = CUSTOM =>
        /\ tage_bimodal.fill = WT
        /\ \A i \in {pc % (2 ^ 15) : pc \in AllPCs} \cup DOMAIN tage_bimodal.w :
               Read(tage_bimodal, i) = StandaloneBimodal(trace, i)

\* Trains with and without a provider have happened (a table-0 entry was
\* allocated and since updated as provider), entry 0 has saturated at ST and
\* entry 1 has stepped down to WN.
C21_Witness ==
    /\ bpType = CUSTOM
    /\ \E e \in Values(tage_tables[0]) :
           /\ e.tag # 65535
           /\ e.ctr \notin {alloc_ctr(TAKEN), alloc_ctr(NOTTAKEN)}
    /\ Read(tage_bimodal, 0) = ST
    /\ Read(tage_bimodal, 1) = WN

====
